---- MODULE Spec2Model ----
(***************************************************************************)
(* Model of the local API reverse proxy of src-tauri/src/main.rs:          *)
(* start_proxy_server with its two routes (cors_preflight, api_proxy), the *)
(* shared cookie jar behind a tokio RwLock, and the pure helpers           *)
(* parse_cookie and build_cookie_header.                                   *)
(*                                                                         *)
(* Text (header values, paths, urls, bodies) is a sequence of tokens, most *)
(* of them single characters, so that split, trim, format! and join are    *)
(* computed position by position.  Header names are strings; to_lowercase  *)
(* is a table over the names that occur.                                   *)
(***************************************************************************)
EXTENDS Integers, Sequences, FiniteSets, TLC

(***************************************************************************)
(* Bounds of the model.                                                    *)
(***************************************************************************)
\* forwarding tasks that can be in flight at once
NumTasks == 2
\* downstream requests accepted in one run
MaxRequests == 2
\* downstream requests a sequential client issues in one run
MaxSeqRequests == 3

Tasks == 1..NumTasks

(***************************************************************************)
(* Text helpers.                                                           *)
(***************************************************************************)
\* bytes outside visible ASCII: HeaderValue::to_str() fails on them
NonAscii == {"\\x80"}

\* char::is_whitespace, as used by str::trim
IsSpace(c) == c \in {" ", "\t"}

\* HeaderValue::to_str(): Ok iff every byte is visible ASCII
to_str_ok(v) == \A i \in 1..Len(v) : v[i] \notin NonAscii

\* index of the first occurrence of c in s, 0 when there is none
IndexOf(s, c) ==
  IF \E i \in 1..Len(s) : s[i] = c
    THEN CHOOSE i \in 1..Len(s) : s[i] = c /\ \A j \in 1..(i - 1) : s[j] # c
    ELSE 0

\* str::trim: drop leading and trailing whitespace
Trim(s) ==
  IF \A i \in 1..Len(s) : IsSpace(s[i])
    THEN << >>
    ELSE LET lo == CHOOSE i \in 1..Len(s) :
                     ~IsSpace(s[i]) /\ \A j \in 1..(i - 1) : IsSpace(s[j])
             hi == CHOOSE i \in 1..Len(s) :
                     ~IsSpace(s[i]) /\ \A j \in (i + 1)..Len(s) : IsSpace(s[j])
         IN  SubSeq(s, lo, hi)

\* str::to_lowercase over the header names that occur
to_lowercase(n) ==
  CASE n = "Host" -> "host"
    [] n = "Cookie" -> "cookie"
    [] n = "COOKIE" -> "cookie"
    [] n = "Origin" -> "origin"
    [] n = "Referer" -> "referer"
    [] n = "TE" -> "te"
    [] n = "X-Custom" -> "x-custom"
    [] n = "X-Pm-Appversion" -> "x-pm-appversion"
    [] n = "Set-Cookie" -> "set-cookie"
    [] n = "SET-COOKIE" -> "set-cookie"
    [] n = "Location" -> "location"
    [] n = "Content-Encoding" -> "content-encoding"
    [] n = "Transfer-Encoding" -> "transfer-encoding"
    [] n = "Content-Type" -> "content-type"
    [] n = "Access-Control-Allow-Origin" -> "access-control-allow-origin"
    [] n = "Access-Control-Allow-Methods" -> "access-control-allow-methods"
    [] n = "Access-Control-Allow-Headers" -> "access-control-allow-headers"
    [] n = "Access-Control-Allow-Credentials" -> "access-control-allow-credentials"
    [] n = "Access-Control-Expose-Headers" -> "access-control-expose-headers"
    [] n = "Access-Control-Max-Age" -> "access-control-max-age"
    [] OTHER -> n

\* one header of a header list
Hdr(n, v) == [name |-> n, value |-> v]

\* http::HeaderMap as the handlers see it: names are stored lowercased.  Its
\* iteration yields the values of one name in the order they arrived; the
\* order between different names is kept as on the wire.
RECURSIVE HeaderMapOf(_)
HeaderMapOf(wire) ==
  IF wire = << >> THEN << >>
  ELSE << Hdr(to_lowercase(Head(wire).name), Head(wire).value) >> \o HeaderMapOf(Tail(wire))

(***************************************************************************)
(* const PROTON_API_BASE                                                   *)
(***************************************************************************)
PROTON_API_BASE == << "https://mail.proton.me" >>

(***************************************************************************)
(* parse_cookie and build_cookie_header.                                   *)
(***************************************************************************)
NoCookie == [some |-> FALSE]

\* (mutation of parse_cookie: the header is split at its first '=' wherever
\* it is, and the value ends at the next ';')
parse_cookieAnyEq(set_cookie) ==
  LET eq   == IndexOf(set_cookie, "=")
      rest == SubSeq(set_cookie, eq + 1, Len(set_cookie))
      semi == IndexOf(rest, ";")
  IN  IF eq # 0
        THEN [some |-> TRUE,
              k |-> Trim(SubSeq(set_cookie, 1, eq - 1)),
              v |-> Trim(IF semi = 0 THEN rest ELSE SubSeq(rest, 1, semi - 1))]
        ELSE NoCookie

\* fn parse_cookie(set_cookie: &str) -> Option<(String, String)>
parse_cookie(set_cookie) ==
  LET semi        == IndexOf(set_cookie, ";")
      \* parts.first(): the text before the first ';' (split always yields it)
      cookie_part == IF semi = 0 THEN set_cookie ELSE SubSeq(set_cookie, 1, semi - 1)
      eq          == IndexOf(cookie_part, "=")
  IN  IF eq # 0  \* splitn(2, '=') produced two parts
        THEN [some |-> TRUE,
              k |-> Trim(SubSeq(cookie_part, 1, eq - 1)),
              v |-> Trim(SubSeq(cookie_part, eq + 1, Len(cookie_part)))]
        ELSE NoCookie

\* format!("{}={}", k, v)
FormatPair(kv) == kv[1] \o << "=" >> \o kv[2]

\* (mutation of build_cookie_header: only the first entry is sent)
build_cookie_headerFirst(entries) ==
  IF entries = << >> THEN << >> ELSE FormatPair(entries[1])

\* fn build_cookie_header: the formatted entries, in iteration order, joined by "; "
RECURSIVE build_cookie_header(_)
build_cookie_header(entries) ==
  IF entries = << >> THEN << >>
  ELSE IF Len(entries) = 1 THEN FormatPair(entries[1])
  ELSE FormatPair(entries[1]) \o << ";", " " >> \o build_cookie_header(Tail(entries))

(***************************************************************************)
(* Inputs: downstream requests and upstream replies.                       *)
(***************************************************************************)
Methods == {"GET", "HEAD", "POST", "OPTIONS"}

\* header lists as the downstream client puts them on the wire
ClientScrubbed ==
  << Hdr("Host", << "localhost:9543" >>), Hdr("Origin", << "http://localhost" >>),
     Hdr("Cookie", << "fake=1" >>), Hdr("X-Custom", << "ok" >>) >>
ClientMixed ==
  << Hdr("connection", << "close" >>), Hdr("keep-alive", << "5" >>),
     Hdr("X-Pm-Appversion", << "client@1" >>),
     Hdr("transfer-encoding", << "chunked" >>), Hdr("TE", << "trailers" >>),
     Hdr("trailer", << "x" >>), Hdr("upgrade", << "h2c" >>),
     Hdr("x-pm-apiversion", << "\\x80" >>),
     Hdr("Referer", << "http://localhost/" >>), Hdr("COOKIE", << "sid=9" >>),
     Hdr("x-custom", << "o", "\\x80" >>) >>

Request(m, p, q, hs, b) == [method |-> m, path |-> p, query |-> q, headers |-> hs, body |-> b]

\* the downstream requests of the model
Requests ==
  { Request("OPTIONS", << "/", "x" >>, << >>, << >>, << >>),
    Request("OPTIONS", << "/", "a", "/", "b" >>, << "q", "=", "1" >>, ClientScrubbed, << "b" >>),
    Request("GET", << "/", "x" >>, << >>, ClientScrubbed, << "b" >>),
    Request("POST", << "/", "a", "/", "b" >>, << "q", "=", "1" >>, ClientMixed, << "b" >>) }

\* Set-Cookie values
SC_a1     == << "a", "=", "1", ";", " ", "p", "=", "/" >>
SC_a2     == << "a", "=", "2" >>
SC_A1     == << "A", "=", "1" >>
SC_bTrim  == << " ", "b", " ", "=", " ", "2", " ", ";", "x" >>
SC_aEmpty == << "a", "=", ";", "m", "=", "0" >>
SC_aEq    == << "a", "=", "1", "=", "2" >>
SC_noName == << "=", "v" >>
SC_noEq   == << "a", ";", "b", "=", "1" >>
SC_bytes  == << "b", "=", "\\x80" >>

Reply(st, hs, b) == [status |-> st, headers |-> hs, body |-> b]

\* the upstream replies of the model
Replies ==
  { Reply(200, << Hdr("Set-Cookie", SC_a1), Hdr("Content-Type", << "json" >>),
                  Hdr("Transfer-Encoding", << "chunked" >>), Hdr("set-cookie", SC_A1),
                  Hdr("Content-Encoding", << "gzip" >>) >>, << "{}" >>),
    Reply(302, << Hdr("Location", << "/login" >>), Hdr("Set-Cookie", SC_a2),
                  Hdr("set-cookie", SC_noEq), Hdr("SET-COOKIE", SC_aEq),
                  Hdr("set-cookie", SC_bytes) >>, << >>),
    Reply(301, << Hdr("location", << "/", "\\x80" >>) >>, << >>),
    Reply(304, << >>, << >>),
    Reply(401, << Hdr("set-cookie", SC_bTrim), Hdr("set-cookie", SC_aEmpty),
                  Hdr("set-cookie", SC_noName) >>, << >>),
    Reply(503, << Hdr("Set-Cookie", SC_a2) >>, << >>) }

\* transport-level errors of the HTTP client, as their Display text
TransportErrors == {<< "dns error" >>, << "operation timed out" >>}

(***************************************************************************)
(* Configuration of the forwarder.                                         *)
(***************************************************************************)
\* (mutation of RequestDenylist: only the hop-by-hop names are skipped)
RequestDenylistHopByHop ==
  {"host", "connection", "keep-alive", "transfer-encoding", "te", "trailer", "upgrade"}

\* the names the request header copy skips
RequestDenylist ==
  {"host", "connection", "keep-alive", "transfer-encoding", "te", "trailer",
   "upgrade", "origin", "referer", "cookie"}

\* (mutation of ResponseDenylist: Set-Cookie is forwarded to the browser)
ResponseDenylistNoCookie == {"transfer-encoding", "content-encoding"}

\* the names the response header copy skips
ResponseDenylist == {"transfer-encoding", "content-encoding", "set-cookie"}

\* the Proton-specific headers added to every upstream request
InjectedHeaders ==
  << Hdr("x-pm-appversion", << "web-drive@5.0.0" >>),
     Hdr("x-pm-apiversion", << "3" >>),
     Hdr("Origin", << "https://drive.proton.me" >>),
     Hdr("Referer", << "https://drive.proton.me/" >>) >>

\* (mutation of CorsHeaders: Expose-Headers is left out)
CorsHeadersNoExpose ==
  << Hdr("Access-Control-Allow-Origin", << "*" >>),
     Hdr("Access-Control-Allow-Methods", << "GET, POST, PUT, DELETE, OPTIONS, PATCH" >>),
     Hdr("Access-Control-Allow-Headers", << "*" >>),
     Hdr("Access-Control-Allow-Credentials", << "true" >>) >>

\* the CORS headers added to every forwarded reply
CorsHeaders ==
  << Hdr("Access-Control-Allow-Origin", << "*" >>),
     Hdr("Access-Control-Allow-Methods", << "GET, POST, PUT, DELETE, OPTIONS, PATCH" >>),
     Hdr("Access-Control-Allow-Headers", << "*" >>),
     Hdr("Access-Control-Allow-Credentials", << "true" >>),
     Hdr("Access-Control-Expose-Headers", << "*" >>) >>

\* (mutation of FollowRedirects: the client is built with its default policy)
FollowRedirectsDefault == TRUE

\* reqwest::redirect::Policy of the shared client: TRUE when it follows 3xx
FollowRedirects == FALSE

\* (mutation of Routes: the forwarder is tried first)
RoutesForwardFirst == << "api_proxy", "cors_preflight" >>

\* let routes = cors_preflight.or(api_proxy): tried in this order
Routes == << "cors_preflight", "api_proxy" >>

\* does the filter of a route accept the request
RouteMatches(route, r) ==
  IF route = "cors_preflight" THEN r.method = "OPTIONS"  \* warp::options()
  ELSE TRUE                                              \* warp::any()

\* the first route of Routes whose filter accepts the request
RouteOf(r) == Routes[CHOOSE i \in 1..Len(Routes) :
                /\ RouteMatches(Routes[i], r)
                /\ \A j \in 1..(i - 1) : ~RouteMatches(Routes[j], r)]

\* the reply of the cors_preflight route
PreflightResponse ==
  [status  |-> 204,
   headers |-> << Hdr("Access-Control-Allow-Origin", << "*" >>),
                  Hdr("Access-Control-Allow-Methods", << "GET, POST, PUT, DELETE, OPTIONS, PATCH" >>),
                  Hdr("Access-Control-Allow-Headers", << "*" >>),
                  Hdr("Access-Control-Allow-Credentials", << "true" >>),
                  Hdr("Access-Control-Max-Age", << "86400" >>) >>,
   body    |-> << >>]

\* (mutation of UpstreamUrl: the '?' is appended whatever the query)
UpstreamUrlAlwaysQuery(r) == PROTON_API_BASE \o r.path \o << "?" >> \o r.query

\* let url = if query.is_empty() { base + path } else { base + path + "?" + query }
UpstreamUrl(r) ==
  IF r.query = << >> THEN PROTON_API_BASE \o r.path
  ELSE PROTON_API_BASE \o r.path \o << "?" >> \o r.query

\* (mutation of CopiesRequestHeader: a header the proxy injects itself is not copied)
CopiesRequestHeaderOnce(h) ==
  /\ to_lowercase(h.name) \notin RequestDenylist \cup {"x-pm-appversion", "x-pm-apiversion"}
  /\ to_str_ok(h.value)

\* the request header copy: is this header of the HeaderMap forwarded
CopiesRequestHeader(h) ==
  /\ to_lowercase(h.name) \notin RequestDenylist
  /\ to_str_ok(h.value)

\* the headers the copy loop puts on the request builder
CopiedHeaders(r) == SelectSeq(HeaderMapOf(r.headers), CopiesRequestHeader)

\* if method != GET && method != HEAD { request.body(body) }
UpstreamBody(r) == IF r.method \notin {"GET", "HEAD"} THEN r.body ELSE << >>

\* the response header copy: is this header of the reply sent downstream
CopiesResponseHeader(h) ==
  /\ to_lowercase(h.name) \notin ResponseDenylist
  /\ to_str_ok(h.value)

\* the Ok(resp) branch: status, filtered headers, CORS headers, buffered body
ForwardResponse(res) ==
  [status  |-> res.status,
   headers |-> SelectSeq(res.headers, CopiesResponseHeader) \o CorsHeaders,
   body    |-> res.body]

\* (mutation of ErrorResponse: the 502 gets the CORS headers of a forwarded reply)
ErrorResponseWithCors(e) ==
  [status  |-> 502,
   headers |-> CorsHeaders,
   body    |-> << "Proxy error: " >> \o e]

\* the Err(e) branch
ErrorResponse(e) ==
  [status  |-> 502,
   headers |-> << Hdr("Access-Control-Allow-Origin", << "*" >>) >>,
   body    |-> << "Proxy error: " >> \o e]

\* the harvest loop: does this header of the reply reach jar.insert
StoresCookie(h) ==
  /\ to_lowercase(h.name) = "set-cookie"
  /\ to_str_ok(h.value)
  /\ parse_cookie(h.value).some

\* the position at or after i of the next header the harvest loop stores
\* (Len + 1 when the loop runs to its end)
NextCookie(hs, i) ==
  IF \E j \in i..Len(hs) : StoresCookie(hs[j])
    THEN CHOOSE j \in i..Len(hs) :
           StoresCookie(hs[j]) /\ \A l \in i..(j - 1) : ~StoresCookie(hs[l])
    ELSE Len(hs) + 1

\* (mutation of JarInsert: a cookie set to the empty value is deleted, as a
\* browser deletes an expired cookie)
JarInsertOrRemove(j, k, v) ==
  IF v = << >> THEN [n \in DOMAIN j \ {k} |-> j[n]]
  ELSE [n \in DOMAIN j \cup {k} |-> IF n = k THEN v ELSE j[n]]

\* (mutation of JarInsert: an existing entry keeps its value, as entry().or_insert would)
JarInsertKeep(j, k, v) == [n \in DOMAIN j \cup {k} |-> IF n \in DOMAIN j THEN j[n] ELSE v]

\* jar.insert(k, v)
JarInsert(j, k, v) == [n \in DOMAIN j \cup {k} |-> IF n = k THEN v ELSE j[n]]

EmptyJar == [n \in {} |-> << >>]

(***************************************************************************)
(* State.                                                                  *)
(***************************************************************************)
VARIABLES
  jar,        \* the cookie jar: HashMap<String, String> behind the RwLock
  lock,       \* the RwLock: the tasks holding a read guard, the task holding the write guard (a set of at most one)
  pc,         \* where each forwarding task is
  req,        \* the downstream request a task is handling
  up,         \* the upstream request a task builds and sends
  iter,       \* the jar entries build_cookie_header has visited so far
  snap,       \* history: the jar when the task acquired its read guard
  result,     \* what request.send() returned: the reply or the error
  hIdx,       \* position of the harvest loop in the reply's headers
  resp,       \* the downstream response, once emitted
  upCalls,    \* history: upstream requests issued for the task's request
  jarWrites,  \* history: jar inserts done for the task's request
  foreign,    \* history: another task inserted while this one was harvesting
  accepted,   \* downstream requests accepted so far
  learned     \* history: the last value of each cookie name the replies set

vars == << jar, lock, pc, req, up, iter, snap, result, hIdx, resp, upCalls,
           jarWrites, foreign, accepted, learned >>

NoReq    == [none |-> TRUE]
NoUp     == [none |-> TRUE]
NoResult == [kind |-> "none"]
NoResp   == [none |-> TRUE]

\* tokio RwLock: a read guard is granted while no write guard is held
CanRead(l) == l.writer = {}

\* (mutation of ReleaseRead: the read guard outlives its block)
ReleaseReadNever(l, t) == l

\* the read guard of the task is dropped at the end of the block that took it
ReleaseRead(l, t) == [l EXCEPT !.readers = @ \ {t}]

\* the .await points of a forwarding, where its future can be dropped:
\* cookies.read(), request.send() and resp.bytes(), cookies.write()
SuspensionPoints == {"read_wait", "await", "write_wait"}

\* (mutation of CanWrite: the write guard does not wait for readers)
CanWriteDespiteReaders(l) == l.writer = {}

\* tokio RwLock: the write guard is granted while no guard at all is held
CanWrite(l) == l.writer = {} /\ l.readers = {}

\* the names of the entries visited so far
Visited(t) == {iter[t][i][1] : i \in 1..Len(iter[t])}

\* the task has a reply and is in, or past, its harvest loop
Harvesting(t) == result[t].kind = "ok"

Init ==
  /\ jar = EmptyJar
  /\ lock = [readers |-> {}, writer |-> {}]
  /\ pc = [t \in Tasks |-> "idle"]
  /\ req = [t \in Tasks |-> NoReq]
  /\ up = [t \in Tasks |-> NoUp]
  /\ iter = [t \in Tasks |-> << >>]
  /\ snap = [t \in Tasks |-> EmptyJar]
  /\ result = [t \in Tasks |-> NoResult]
  /\ hIdx = [t \in Tasks |-> 0]
  /\ resp = [t \in Tasks |-> NoResp]
  /\ upCalls = [t \in Tasks |-> 0]
  /\ jarWrites = [t \in Tasks |-> 0]
  /\ foreign = [t \in Tasks |-> FALSE]
  /\ accepted = 0
  /\ learned = EmptyJar

(***************************************************************************)
(* Reading a Set-Cookie header: name=value before the first ';', split at   *)
(* the first '=', both sides trimmed.                                      *)
(***************************************************************************)
\* the position of the '=' that ends the name, 0 when the text before the
\* first ';' has none
CookieEq(v) ==
  IF \E e \in 1..Len(v) : v[e] = "=" /\ \A j \in 1..(e - 1) : v[j] \notin {"=", ";"}
    THEN CHOOSE e \in 1..Len(v) : v[e] = "=" /\ \A j \in 1..(e - 1) : v[j] \notin {"=", ";"}
    ELSE 0

\* the position of the first ';' after position e, Len + 1 when there is none
CookieEnd(v, e) ==
  IF \E x \in (e + 1)..Len(v) : v[x] = ";"
    THEN CHOOSE x \in (e + 1)..Len(v) : v[x] = ";" /\ \A j \in (e + 1)..(x - 1) : v[j] # ";"
    ELSE Len(v) + 1

CookieName(v)  == Trim(SubSeq(v, 1, CookieEq(v) - 1))
CookieValue(v) == Trim(SubSeq(v, CookieEq(v) + 1, CookieEnd(v, CookieEq(v)) - 1))

\* a Set-Cookie header of readable text with a name=value part
Parseable(h) ==
  /\ to_lowercase(h.name) = "set-cookie"
  /\ \A i \in 1..Len(h.value) : h.value[i] \notin NonAscii
  /\ CookieEq(h.value) # 0

\* what a client that keeps cookies holds after receiving the header h
Learn(l, h) ==
  IF Parseable(h)
    THEN [n \in DOMAIN l \cup {CookieName(h.value)} |->
            IF n = CookieName(h.value) THEN CookieValue(h.value) ELSE l[n]]
    ELSE l

(***************************************************************************)
(* Actions.                                                                *)
(***************************************************************************)
\* A downstream request arrives and is routed.  cors_preflight answers at
\* once; api_proxy builds the url, copies the client's headers and reaches
\* cookies.read().await.
Accept(t, r) ==
  /\ pc[t] = "idle"
  /\ \A u \in 1..(t - 1) : pc[u] # "idle"  \* the new task takes the first free slot
  /\ accepted' = accepted + 1
  /\ req' = [req EXCEPT ![t] = r]
  /\ IF RouteOf(r) = "cors_preflight"
       THEN /\ resp' = [resp EXCEPT ![t] = PreflightResponse]
            /\ pc' = [pc EXCEPT ![t] = "done"]
            /\ up' = up
       ELSE /\ up' = [up EXCEPT ![t] = [method  |-> r.method,
                                        url     |-> UpstreamUrl(r),
                                        headers |-> CopiedHeaders(r),
                                        body    |-> << >>]]
            /\ pc' = [pc EXCEPT ![t] = "read_wait"]
            /\ resp' = resp
  /\ UNCHANGED << lock, iter, snap, result, hIdx, upCalls, jarWrites, foreign, learned >>

\* (mutation of Receive: the Cookie header of the client is put into the jar)
ReceiveKeepingClientCookie(t, r) ==
  /\ accepted < MaxRequests
  /\ Accept(t, r)
  /\ jar' = IF \E i \in 1..Len(r.headers) : to_lowercase(r.headers[i].name) = "cookie"
              THEN LET i == CHOOSE i \in 1..Len(r.headers) :
                              to_lowercase(r.headers[i].name) = "cookie"
                   IN  JarInsert(jar, << "client" >>, r.headers[i].value)
              ELSE jar

\* warp spawns a task per request: requests are accepted while others are in
\* flight; nothing before cookies.read() touches the jar
Receive(t, r) ==
  /\ accepted < MaxRequests
  /\ Accept(t, r)
  /\ jar' = jar

\* The rest of the request after the read guard is dropped: the injected
\* headers, the body, and request.send().
SendUpstream(t, hs) ==
  /\ up' = [up EXCEPT ![t].headers = hs \o InjectedHeaders,
                       ![t].body = UpstreamBody(req[t])]
  /\ upCalls' = [upCalls EXCEPT ![t] = @ + 1]
  /\ pc' = [pc EXCEPT ![t] = "await"]

\* cookies.read().await returns the guard; jar.is_empty() decides whether a
\* Cookie header is built.  With an empty jar the guard is dropped at once.
AcquireRead(t) ==
  /\ pc[t] = "read_wait"
  /\ CanRead(lock)
  /\ snap' = [snap EXCEPT ![t] = jar]
  /\ IF jar = EmptyJar
       THEN /\ SendUpstream(t, up[t].headers)
            /\ lock' = lock
       ELSE /\ lock' = [lock EXCEPT !.readers = @ \cup {t}]
            /\ pc' = [pc EXCEPT ![t] = "read_iter"]
            /\ UNCHANGED << up, upCalls >>
  /\ UNCHANGED << jar, req, iter, result, hIdx, resp, jarWrites, foreign, accepted, learned >>

\* build_cookie_header visits one more entry of the map (cookies.iter(), in
\* the map's own order).
IterNext(t) ==
  /\ pc[t] = "read_iter"
  /\ \E k \in DOMAIN jar \ Visited(t) :
       iter' = [iter EXCEPT ![t] = Append(@, << k, jar[k] >>)]
  /\ UNCHANGED << jar, lock, pc, req, up, snap, result, hIdx, resp, upCalls,
                  jarWrites, foreign, accepted, learned >>

\* The iteration is over: the Cookie header is attached, the read guard is
\* dropped, and the request is sent.
FinishRead(t) ==
  /\ pc[t] = "read_iter"
  /\ DOMAIN jar \subseteq Visited(t)
  /\ SendUpstream(t, Append(up[t].headers, Hdr("Cookie", build_cookie_header(iter[t]))))
  /\ lock' = ReleaseRead(lock, t)
  /\ iter' = [iter EXCEPT ![t] = << >>]
  /\ UNCHANGED << jar, req, snap, result, hIdx, resp, jarWrites, foreign, accepted, learned >>

\* (mutation of AfterHarvestStep: the response is returned at once and the
\* rest of the Set-Cookie headers is stored after it)
AfterHarvestStepRespondFirst(t, atEnd, res) ==
  /\ resp' = [resp EXCEPT ![t] = ForwardResponse(res)]
  /\ pc' = [pc EXCEPT ![t] = IF atEnd THEN "done" ELSE "write_wait"]

\* Where the harvest loop goes after a step: to its next
\* cookies.write().await, or past its end, where the Ok(resp) branch builds
\* the downstream response and returns it.
AfterHarvestStep(t, atEnd, res) ==
  IF atEnd
    THEN /\ resp' = [resp EXCEPT ![t] = ForwardResponse(res)]
         /\ pc' = [pc EXCEPT ![t] = "done"]
    ELSE /\ resp' = resp
         /\ pc' = [pc EXCEPT ![t] = "write_wait"]

\* request.send().await returns Ok(resp) and resp.bytes().await the body
\* (empty when reading it fails).  The harvest loop runs to its first
\* cookies.write().await, or to its end.
UpstreamReply(t, p, bodyOk) ==
  /\ pc[t] = "await"
  /\ IF FollowRedirects /\ p.status \in 300..399
        /\ \E i \in 1..Len(p.headers) : to_lowercase(p.headers[i].name) = "location"
       THEN \* the client itself requests the Location
            /\ upCalls' = [upCalls EXCEPT ![t] = @ + 1]
            /\ UNCHANGED << pc, req, up, snap, result, hIdx, resp >>
       ELSE LET hs == HeaderMapOf(p.headers)
                first == NextCookie(hs, 1)
            IN  /\ result' = [result EXCEPT ![t] =
                                [kind |-> "ok", status |-> p.status, headers |-> hs,
                                 body |-> IF bodyOk THEN p.body ELSE << >>]]
                /\ hIdx' = [hIdx EXCEPT ![t] = first]
                /\ AfterHarvestStep(t, first > Len(hs), result'[t])
                /\ req' = [req EXCEPT ![t] = NoReq]
                /\ up' = [up EXCEPT ![t] = NoUp]
                /\ snap' = [snap EXCEPT ![t] = EmptyJar]
                /\ upCalls' = upCalls
  /\ UNCHANGED << jar, lock, iter, jarWrites, foreign, accepted, learned >>

\* request.send().await returns Err(e): the 502 response is emitted.
UpstreamError(t, e) ==
  /\ pc[t] = "await"
  /\ result' = [result EXCEPT ![t] = [kind |-> "err", err |-> e]]
  /\ resp' = [resp EXCEPT ![t] = ErrorResponse(e)]
  /\ pc' = [pc EXCEPT ![t] = "done"]
  /\ req' = [req EXCEPT ![t] = NoReq]
  /\ up' = [up EXCEPT ![t] = NoUp]
  /\ snap' = [snap EXCEPT ![t] = EmptyJar]
  /\ UNCHANGED << jar, lock, iter, hIdx, upCalls, jarWrites, foreign, accepted, learned >>

\* cookies.write().await returns the write guard.
AcquireWrite(t) ==
  /\ pc[t] = "write_wait"
  /\ CanWrite(lock)
  /\ lock' = [lock EXCEPT !.writer = {t}]
  /\ pc' = [pc EXCEPT ![t] = "insert"]
  /\ UNCHANGED << jar, req, up, iter, snap, result, hIdx, resp, upCalls,
                  jarWrites, foreign, accepted, learned >>

\* jar.insert(k, v); the guard is dropped at the end of the if block and the
\* loop runs on to its next cookies.write().await, or to its end.
Insert(t) ==
  /\ pc[t] = "insert"
  /\ LET hs   == result[t].headers
         c    == parse_cookie(hs[hIdx[t]].value)
         next == NextCookie(hs, hIdx[t] + 1)
     IN  /\ jar' = JarInsert(jar, c.k, c.v)
         /\ hIdx' = [hIdx EXCEPT ![t] = next]
         /\ AfterHarvestStep(t, next > Len(hs), result[t])
  /\ lock' = [lock EXCEPT !.writer = {}]
  /\ jarWrites' = [jarWrites EXCEPT ![t] = @ + 1]
  /\ foreign' = [u \in Tasks |-> foreign[u] \/ (u # t /\ Harvesting(u))]
  /\ learned' = Learn(learned, result[t].headers[hIdx[t]])
  /\ UNCHANGED << req, up, iter, snap, result, upCalls, accepted >>

\* The response has been written downstream; the task ends and its locals
\* are dropped.
Complete(t) ==
  /\ pc[t] = "done"
  /\ pc' = [pc EXCEPT ![t] = "idle"]
  /\ req' = [req EXCEPT ![t] = NoReq]
  /\ result' = [result EXCEPT ![t] = NoResult]
  /\ hIdx' = [hIdx EXCEPT ![t] = 0]
  /\ resp' = [resp EXCEPT ![t] = NoResp]
  /\ upCalls' = [upCalls EXCEPT ![t] = 0]
  /\ jarWrites' = [jarWrites EXCEPT ![t] = 0]
  /\ foreign' = [foreign EXCEPT ![t] = FALSE]
  /\ UNCHANGED << jar, lock, up, iter, snap, accepted, learned >>

\* The future of the task is dropped: its locals are gone.
Drop(t) ==
  /\ pc' = [pc EXCEPT ![t] = "idle"]
  /\ req' = [req EXCEPT ![t] = NoReq]
  /\ up' = [up EXCEPT ![t] = NoUp]
  /\ snap' = [snap EXCEPT ![t] = EmptyJar]
  /\ result' = [result EXCEPT ![t] = NoResult]
  /\ hIdx' = [hIdx EXCEPT ![t] = 0]
  /\ upCalls' = [upCalls EXCEPT ![t] = 0]
  /\ jarWrites' = [jarWrites EXCEPT ![t] = 0]
  /\ foreign' = [foreign EXCEPT ![t] = FALSE]
  /\ UNCHANGED << lock, iter, resp, accepted, learned >>

\* (mutation of Cancel: the cookies the task stored are taken out of the jar
\* again, as a transaction would)
CancelRollingBack(t) ==
  /\ pc[t] \in SuspensionPoints
  /\ Drop(t)
  /\ jar' = IF result[t].kind = "ok"
              THEN LET done == {parse_cookie(result[t].headers[i].value).k :
                                  i \in {i \in 1..(hIdx[t] - 1) : StoresCookie(result[t].headers[i])}}
                   IN  [n \in DOMAIN jar \ done |-> jar[n]]
              ELSE jar

\* The downstream client disconnects: the future of the task is dropped at
\* the .await it is suspended at.  Nothing of the task runs any more and
\* nothing it did is undone.
Cancel(t) ==
  /\ pc[t] \in SuspensionPoints
  /\ Drop(t)
  /\ jar' = jar

Next ==
  \E t \in Tasks :
    \/ \E r \in Requests : Receive(t, r)
    \/ AcquireRead(t)
    \/ IterNext(t)
    \/ FinishRead(t)
    \/ \E p \in Replies, bodyOk \in BOOLEAN : UpstreamReply(t, p, bodyOk)
    \/ \E e \in TransportErrors : UpstreamError(t, e)
    \/ AcquireWrite(t)
    \/ Insert(t)
    \/ Complete(t)
    \/ Cancel(t)

Spec == Init /\ [][Next]_vars

\* A client that sends a request only after it received the response to the
\* one before: a request arrives while no task is in flight, and none is
\* abandoned.
ReceiveSeq(t, r) ==
  /\ \A u \in Tasks : pc[u] = "idle"
  /\ accepted < MaxSeqRequests
  /\ Accept(t, r)
  /\ jar' = jar

NextSeq ==
  \E t \in Tasks :
    \/ \E r \in Requests : ReceiveSeq(t, r)
    \/ AcquireRead(t)
    \/ IterNext(t)
    \/ FinishRead(t)
    \/ \E p \in Replies, bodyOk \in BOOLEAN : UpstreamReply(t, p, bodyOk)
    \/ \E e \in TransportErrors : UpstreamError(t, e)
    \/ AcquireWrite(t)
    \/ Insert(t)
    \/ Complete(t)

SpecSeq == Init /\ [][NextSeq]_vars

\* The forwardings of clients that stay connected, run by a scheduler that
\* does not stay idle while a task is ready: while some task can go on past
\* its cookies.read().await or cookies.write().await, or is inside its
\* cookie-header block or its loop body, a task is run.  Nothing is assumed
\* of the upstream, of the arrival of requests or of the writing of the
\* response.
NextLive ==
  \E t \in Tasks :
    \/ \E r \in Requests : Receive(t, r)
    \/ AcquireRead(t)
    \/ IterNext(t)
    \/ FinishRead(t)
    \/ \E p \in Replies, bodyOk \in BOOLEAN : UpstreamReply(t, p, bodyOk)
    \/ \E e \in TransportErrors : UpstreamError(t, e)
    \/ AcquireWrite(t)
    \/ Insert(t)
    \/ Complete(t)

\* a step of a task that is ready to run
Poll ==
  \E t \in Tasks :
    AcquireRead(t) \/ IterNext(t) \/ FinishRead(t) \/ AcquireWrite(t) \/ Insert(t)

FairScheduling == WF_vars(Poll)

LiveSpec == Init /\ [][NextLive]_vars /\ FairScheduling

(***************************************************************************)
(* Vocabulary of the properties.                                           *)
(***************************************************************************)
HasReq(t)   == req[t] # NoReq
HasResp(t)  == resp[t] # NoResp
Replied(t)  == result[t].kind = "ok"
Failed(t)   == result[t].kind = "err"

\* the headers of a list as a set of <<lowercased name, value>>
HeaderSet(hs) == {<< to_lowercase(hs[i].name), hs[i].value >> : i \in 1..Len(hs)}

\* the lowercased names of a header list
NameSet(hs) == {to_lowercase(hs[i].name) : i \in 1..Len(hs)}

\* the positions of a header list that carry the name n, case-insensitively
Named(hs, n) == {i \in 1..Len(hs) : to_lowercase(hs[i].name) = n}

(***************************************************************************)
(* C1.  Every OPTIONS request, whatever its path, headers, body and the    *)
(* jar, is answered locally: status 204, empty body, the constant CORS     *)
(* header set with Max-Age 86400; no upstream request is issued for it.    *)
(***************************************************************************)
C1_PreflightLocal ==
  \A t \in Tasks :
    (HasReq(t) /\ req[t].method = "OPTIONS") =>
      /\ pc[t] = "done"
      /\ upCalls[t] = 0
      /\ up[t] = NoUp
      /\ result[t] = NoResult
      /\ resp[t].status = 204
      /\ resp[t].body = << >>
      /\ Len(resp[t].headers) = 5
      /\ HeaderSet(resp[t].headers) =
           { << "access-control-allow-origin", << "*" >> >>,
             << "access-control-allow-methods", << "GET, POST, PUT, DELETE, OPTIONS, PATCH" >> >>,
             << "access-control-allow-headers", << "*" >> >>,
             << "access-control-allow-credentials", << "true" >> >>,
             << "access-control-max-age", << "86400" >> >> }

\* an OPTIONS request with a query, headers and a body was answered while the jar held cookies
C1_Witness ==
  \E t \in Tasks :
    /\ HasReq(t) /\ req[t].method = "OPTIONS"
    /\ req[t].headers # << >> /\ req[t].body # << >> /\ req[t].query # << >>
    /\ jar # EmptyJar
    /\ HasResp(t)

(***************************************************************************)
(* C2.  Whenever the upstream replied, whatever its status, the downstream *)
(* response has no header named set-cookie, transfer-encoding or           *)
(* content-encoding (case-insensitively), however many the reply carried.  *)
(***************************************************************************)
C2_ResponseScrubbed ==
  \A t \in Tasks :
    (Replied(t) /\ HasResp(t)) =>
      NameSet(resp[t].headers) \cap {"set-cookie", "transfer-encoding", "content-encoding"} = {}

\* a reply with two Set-Cookie headers, a Transfer-Encoding and a Content-Encoding was answered
C2_Witness ==
  \E t \in Tasks :
    /\ Replied(t) /\ HasResp(t)
    /\ Cardinality(Named(result[t].headers, "set-cookie")) >= 2
    /\ Named(result[t].headers, "transfer-encoding") # {}
    /\ Named(result[t].headers, "content-encoding") # {}

(***************************************************************************)
(* C3.  As stated: every downstream response, of every request, contains   *)
(* the five CORS headers Allow-Origin, Allow-Methods, Allow-Headers,       *)
(* Allow-Credentials and Expose-Headers.                                   *)
(***************************************************************************)
FiveCorsNames ==
  {"access-control-allow-origin", "access-control-allow-methods",
   "access-control-allow-headers", "access-control-allow-credentials",
   "access-control-expose-headers"}

C3_AllResponsesFiveCors ==
  \A t \in Tasks : HasResp(t) => FiveCorsNames \subseteq NameSet(resp[t].headers)

(***************************************************************************)
(* C3, amended.  Every downstream response to a request the upstream       *)
(* replied to contains the five CORS headers, with their fixed values.     *)
(* (The 502 response carries Allow-Origin only, the preflight response     *)
(* Max-Age in place of Expose-Headers.)                                    *)
(***************************************************************************)
C3_ForwardedFiveCors ==
  \A t \in Tasks :
    (Replied(t) /\ HasResp(t)) =>
      { << "access-control-allow-origin", << "*" >> >>,
        << "access-control-allow-methods", << "GET, POST, PUT, DELETE, OPTIONS, PATCH" >> >>,
        << "access-control-allow-headers", << "*" >> >>,
        << "access-control-allow-credentials", << "true" >> >>,
        << "access-control-expose-headers", << "*" >> >> }
        \subseteq HeaderSet(resp[t].headers)

\* a 401 reply was answered
C3_Witness ==
  \E t \in Tasks : Replied(t) /\ HasResp(t) /\ result[t].status = 401

(***************************************************************************)
(* C4.  When a forwarding whose reply carries Set-Cookie headers completes *)
(* and no other forwarding wrote the jar meanwhile, the jar maps N to V    *)
(* for every parseable header "N=V; attrs": the attributes after the first *)
(* ';' are dropped, names are case-sensitive, and of several headers with  *)
(* the same name the last one in reply order is the one stored.            *)
(***************************************************************************)
C4_LastWriteWins ==
  \A t \in Tasks :
    (pc[t] = "done" /\ Replied(t) /\ ~foreign[t]) =>
      LET hs == result[t].headers
      IN  \A i \in 1..Len(hs) :
            ( /\ Parseable(hs[i])
              /\ \A j \in (i + 1)..Len(hs) :
                   Parseable(hs[j]) => CookieName(hs[j].value) # CookieName(hs[i].value) )
            => /\ CookieName(hs[i].value) \in DOMAIN jar
               /\ jar[CookieName(hs[i].value)] = CookieValue(hs[i].value)

\* a reply naming the cookie a twice was harvested undisturbed and the second value is stored
C4_Witness ==
  \E t \in Tasks :
    /\ pc[t] = "done" /\ Replied(t) /\ ~foreign[t]
    /\ \E i, j \in 1..Len(result[t].headers) :
         /\ i < j
         /\ Parseable(result[t].headers[i]) /\ Parseable(result[t].headers[j])
         /\ CookieName(result[t].headers[i].value) = CookieName(result[t].headers[j].value)
         /\ CookieValue(result[t].headers[i].value) # CookieValue(result[t].headers[j].value)
         /\ jar[CookieName(result[t].headers[j].value)] = << "1", "=", "2" >>

(***************************************************************************)
(* C5.  Under any interleaving with concurrent harvests, the upstream      *)
(* request carries a synthesized Cookie header iff the jar was non-empty   *)
(* when it was read; there is exactly one such header; its name=value      *)
(* pairs, joined by "; ", are exactly the entries of one jar state (the    *)
(* jar does not change while the read guard is held); and a Cookie header  *)
(* of the downstream client is never forwarded.                            *)
(***************************************************************************)
\* the name=value items of a Cookie header value, split at "; " and at the first '='
RECURSIVE PairsOf(_)
PairsOf(s) ==
  LET semi == IndexOf(s, ";")
      item == IF semi = 0 THEN s ELSE SubSeq(s, 1, semi - 1)
      eq   == IndexOf(item, "=")
      pair == << SubSeq(item, 1, eq - 1), SubSeq(item, eq + 1, Len(item)) >>
  IN  IF semi = 0 THEN << pair >>
      ELSE << pair >> \o PairsOf(SubSeq(s, semi + 2, Len(s)))

\* the entries of a jar as <<name, value>> pairs
Entries(j) == {<< n, j[n] >> : n \in DOMAIN j}

C5_CookieSnapshot ==
  \A t \in Tasks :
    /\ pc[t] = "read_iter" =>
         /\ jar = snap[t]
         /\ \A i \in 1..Len(iter[t]) : iter[t][i] \in Entries(jar)
    /\ pc[t] = "await" =>
         LET hs == up[t].headers
             ck == Named(hs, "cookie")
         IN  /\ (ck # {}) <=> (snap[t] # EmptyJar)
             /\ Cardinality(ck) <= 1
             /\ \A i \in ck :
                  LET pairs == PairsOf(hs[i].value)
                  IN  /\ Len(pairs) = Cardinality(DOMAIN snap[t])
                      /\ {pairs[x] : x \in 1..Len(pairs)} = Entries(snap[t])
                      /\ \A c \in Named(req[t].headers, "cookie") :
                           hs[i].value # req[t].headers[c].value

\* a request of a client that sent its own Cookie header went upstream with two
\* jar entries while another forwarding has changed the jar since
C5_Witness ==
  \E t \in Tasks :
    /\ pc[t] = "await"
    /\ Cardinality(DOMAIN snap[t]) >= 2
    /\ Named(req[t].headers, "cookie") # {}
    /\ Named(up[t].headers, "cookie") # {}
    /\ jar # snap[t]

(***************************************************************************)
(* C6.  As stated: the upstream request has no header named host,          *)
(* connection, keep-alive, transfer-encoding, te, trailer, upgrade,        *)
(* origin, referer or cookie (case-insensitively), except the synthesized  *)
(* Cookie header.                                                          *)
(***************************************************************************)
ScrubbedNames ==
  {"host", "connection", "keep-alive", "transfer-encoding", "te", "trailer",
   "upgrade", "origin", "referer", "cookie"}

C6_NoScrubbedNames ==
  \A t \in Tasks :
    pc[t] = "await" => NameSet(up[t].headers) \cap (ScrubbedNames \ {"cookie"}) = {}

(***************************************************************************)
(* C6, amended.  No header of the downstream request with one of the ten   *)
(* names is copied to the upstream request; the only upstream headers      *)
(* with these names are the synthesized Cookie header and the injected     *)
(* Origin and Referer headers.                                             *)
(***************************************************************************)
C6_ClientNamesScrubbed ==
  \A t \in Tasks :
    pc[t] = "await" =>
      LET hs == up[t].headers
      IN  /\ NameSet(hs) \cap (ScrubbedNames \ {"origin", "referer", "cookie"}) = {}
          /\ \A i \in Named(hs, "origin") : hs[i].value = << "https://drive.proton.me" >>
          /\ \A i \in Named(hs, "referer") : hs[i].value = << "https://drive.proton.me/" >>
          /\ Cardinality(Named(hs, "origin")) = 1
          /\ Cardinality(Named(hs, "referer")) = 1
          /\ Cardinality(Named(hs, "cookie")) <= 1
          /\ \A c \in 1..Len(req[t].headers) :
               to_lowercase(req[t].headers[c].name) \in ScrubbedNames =>
                 << to_lowercase(req[t].headers[c].name), req[t].headers[c].value >>
                   \notin HeaderSet(hs)

\* a request whose client sent Host, Origin, Cookie and a custom header went
\* upstream with the custom header and a synthesized Cookie header
C6_Witness ==
  \E t \in Tasks :
    /\ pc[t] = "await"
    /\ {"host", "origin", "cookie"} \subseteq NameSet(req[t].headers)
    /\ << "x-custom", << "ok" >> >> \in HeaderSet(up[t].headers)
    /\ Named(up[t].headers, "cookie") # {}

(***************************************************************************)
(* C7.  As stated: every upstream request ends with the four injected      *)
(* headers (x-pm-appversion, x-pm-apiversion, Origin, Referer) with their  *)
(* fixed values, after the copied headers and the synthesized Cookie       *)
(* header; and when the client sent a header with the name of an injected  *)
(* one that is not scrubbed, the client's value and the injected value     *)
(* are both on the upstream request.                                       *)
(***************************************************************************)
InjectedLast(hs) ==
  /\ Len(hs) >= 4
  /\ SubSeq(hs, Len(hs) - 3, Len(hs)) =
       << Hdr("x-pm-appversion", << "web-drive@5.0.0" >>),
          Hdr("x-pm-apiversion", << "3" >>),
          Hdr("Origin", << "https://drive.proton.me" >>),
          Hdr("Referer", << "https://drive.proton.me/" >>) >>
  /\ Named(hs, "cookie") \subseteq {Len(hs) - 4}

\* the positions before the Cookie header and the injected headers
CopiedPart(hs) == 1..(Len(hs) - 4 - Cardinality(Named(hs, "cookie")))

ReadableText(v) == \A i \in 1..Len(v) : v[i] \notin NonAscii

C7_InjectedAndClientValues ==
  \A t \in Tasks :
    pc[t] = "await" =>
      LET hs == up[t].headers
      IN  /\ InjectedLast(hs)
          /\ \A c \in 1..Len(req[t].headers) :
               to_lowercase(req[t].headers[c].name) \in {"x-pm-appversion", "x-pm-apiversion"} =>
                 \E i \in CopiedPart(hs) :
                   /\ to_lowercase(hs[i].name) = to_lowercase(req[t].headers[c].name)
                   /\ hs[i].value = req[t].headers[c].value

(***************************************************************************)
(* C7, amended.  Every upstream request ends with the four injected        *)
(* headers with their fixed values, after the copied headers and the       *)
(* synthesized Cookie header; and when the client sent a header with the   *)
(* name of an injected one that is not scrubbed and a value of visible     *)
(* ASCII text, the client's value and the injected value are both on the   *)
(* upstream request (a value with other bytes is skipped by the copy).     *)
(***************************************************************************)
C7_InjectedAndReadableClientValues ==
  \A t \in Tasks :
    pc[t] = "await" =>
      LET hs == up[t].headers
      IN  /\ InjectedLast(hs)
          /\ \A c \in 1..Len(req[t].headers) :
               ( /\ to_lowercase(req[t].headers[c].name) \in {"x-pm-appversion", "x-pm-apiversion"}
                 /\ ReadableText(req[t].headers[c].value) ) =>
                 \E i \in CopiedPart(hs) :
                   /\ to_lowercase(hs[i].name) = to_lowercase(req[t].headers[c].name)
                   /\ hs[i].value = req[t].headers[c].value

\* a request whose client sent its own x-pm-appversion went upstream with a
\* synthesized Cookie header
C7_Witness ==
  \E t \in Tasks :
    /\ pc[t] = "await"
    /\ << "x-pm-appversion", << "client@1" >> >> \in HeaderSet(req[t].headers)
    /\ << "x-pm-appversion", << "client@1" >> >> \in HeaderSet(up[t].headers)
    /\ Named(up[t].headers, "cookie") # {}

(***************************************************************************)
(* C8.  When the upstream call fails at the transport level, the           *)
(* downstream response has status 502, the single header                   *)
(* Access-Control-Allow-Origin: * and a body beginning with "Proxy error:";*)
(* one upstream attempt was made (no retry) and the forwarding wrote       *)
(* nothing to the jar.                                                     *)
(***************************************************************************)
C8_TransportFailure ==
  \A t \in Tasks :
    Failed(t) =>
      /\ pc[t] = "done"
      /\ resp[t].status = 502
      /\ resp[t].headers = << Hdr("Access-Control-Allow-Origin", << "*" >>) >>
      /\ Len(resp[t].body) = 2
      /\ resp[t].body[1] = "Proxy error: "
      /\ resp[t].body[2] = result[t].err[1]
      /\ upCalls[t] = 1
      /\ jarWrites[t] = 0

\* an upstream call failed while the jar held cookies
C8_Witness ==
  \E t \in Tasks : Failed(t) /\ HasResp(t) /\ jar # EmptyJar

(***************************************************************************)
(* C9.  As stated: when the upstream replies with a 3xx status, the        *)
(* downstream response has that status and the same Location header, one   *)
(* upstream request was issued for the downstream request (the redirect    *)
(* is not followed), and the Set-Cookie headers of the reply are           *)
(* harvested.                                                              *)
(***************************************************************************)
Redirected(t) == Replied(t) /\ HasResp(t) /\ result[t].status \in 300..399

\* the Set-Cookie headers of the task's reply that can be parsed
ParseableCookies(t) == {i \in 1..Len(result[t].headers) : Parseable(result[t].headers[i])}

C9_RedirectPassthrough ==
  \A t \in Tasks :
    Redirected(t) =>
      /\ resp[t].status = result[t].status
      /\ \A i \in Named(result[t].headers, "location") :
           << "location", result[t].headers[i].value >> \in HeaderSet(resp[t].headers)
      /\ upCalls[t] = 1
      /\ jarWrites[t] = Cardinality(ParseableCookies(t))

(***************************************************************************)
(* C9, amended.  When the upstream replies with a 3xx status, the          *)
(* downstream response has that status and the same Location header        *)
(* provided its value is visible ASCII text (a Location value with other   *)
(* bytes is skipped by the response header copy), one upstream request     *)
(* was issued for the downstream request, and the Set-Cookie headers of    *)
(* the reply are harvested.                                                *)
(***************************************************************************)
C9_RedirectPassthroughReadable ==
  \A t \in Tasks :
    Redirected(t) =>
      /\ resp[t].status = result[t].status
      /\ \A i \in Named(result[t].headers, "location") :
           ReadableText(result[t].headers[i].value) =>
             << "location", result[t].headers[i].value >> \in HeaderSet(resp[t].headers)
      /\ Named(resp[t].headers, "location") \subseteq Named(result[t].headers, "location")
      /\ upCalls[t] = 1
      /\ jarWrites[t] = Cardinality(ParseableCookies(t))

\* a 302 reply with a Location and Set-Cookie headers was answered and its cookie is in the jar
C9_Witness ==
  \E t \in Tasks :
    /\ Redirected(t) /\ result[t].status = 302
    /\ << "location", << "/login" >> >> \in HeaderSet(resp[t].headers)
    /\ jarWrites[t] = 2
    /\ << "a" >> \in DOMAIN jar

(***************************************************************************)
(* C10.  The Set-Cookie list of one reply is applied to the jar atomically *)
(* with respect to other writers: between the first and the last jar write *)
(* of one forwarding task, no other forwarding task writes the jar.        *)
(***************************************************************************)
\* the task has written a cookie of its reply and has another one to write
MidHarvest(t) == pc[t] \in {"write_wait", "insert"} /\ jarWrites[t] >= 1

C10_HarvestAtomic ==
  [][\A t, u \in Tasks :
       (t # u /\ MidHarvest(t)) => jarWrites'[u] <= jarWrites[u]]_vars

(***************************************************************************)
(* C18.  The upstream URL of a forwarded request is the fixed origin       *)
(* followed by the request path when the raw query string is empty, and    *)
(* the origin, the path, "?" and the raw query string otherwise; with an   *)
(* empty query the URL never ends in "?".                                  *)
(***************************************************************************)
C18_UpstreamUrl ==
  \A t \in Tasks :
    (HasReq(t) /\ up[t] # NoUp) =>
      LET url    == up[t].url
          origin == << "https://mail.proton.me" >>
      IN  /\ req[t].query = << >> =>
               /\ url = origin \o req[t].path
               /\ url[Len(url)] # "?"
          /\ req[t].query # << >> =>
               url = origin \o req[t].path \o << "?" >> \o req[t].query

\* a request without a query and one with a query are both awaiting upstream
C18_Witness ==
  \E t, u \in Tasks :
    /\ pc[t] = "await" /\ req[t].query = << >>
    /\ up[t].url = << "https://mail.proton.me", "/", "x" >>
    /\ pc[u] = "await" /\ req[u].query = << "q", "=", "1" >>
    /\ up[u].url = << "https://mail.proton.me", "/", "a", "/", "b", "?", "q", "=", "1" >>

(***************************************************************************)
(* C16.  A Set-Cookie header with an empty cookie name is a parse failure: *)
(* it does not modify the jar, so the jar never holds an entry whose name  *)
(* is empty; an empty value is permitted and stored as the empty value.    *)
(***************************************************************************)
C16_NoEmptyName ==
  /\ << >> \notin DOMAIN jar
  /\ \A t \in Tasks :
       (pc[t] = "done" /\ Replied(t) /\ ~foreign[t]
          /\ \E i \in Named(result[t].headers, "set-cookie") :
               result[t].headers[i].value = SC_aEmpty) =>
         (<< "a" >> \in DOMAIN jar /\ jar[<< "a" >>] = << >>)

(***************************************************************************)
(* C14.  The set of cookie names in the jar never shrinks: no step removes *)
(* a name from the jar, and the insert of a Set-Cookie header that carries *)
(* attributes (an expiry, Max-Age=0) or an empty value leaves its name in  *)
(* the jar with the value of the header.                                   *)
(***************************************************************************)
\* the step is the jar.insert of task t
Inserts(t) == pc[t] = "insert" /\ pc'[t] # "insert"

C14_NamesNeverShrink ==
  [][ /\ DOMAIN jar \subseteq DOMAIN jar'
      /\ \A t \in Tasks :
           Inserts(t) =>
             LET v == result[t].headers[hIdx[t]].value
             IN  (CookieEnd(v, CookieEq(v)) <= Len(v) \/ CookieValue(v) = << >>) =>
                   /\ DOMAIN jar' = DOMAIN jar \cup {CookieName(v)}
                   /\ jar'[CookieName(v)] = CookieValue(v)
    ]_vars

\* the cookie a was stored with a value and a later reply set it to the empty value
C14_Witness ==
  /\ << "a" >> \in DOMAIN jar /\ jar[<< "a" >>] = << >>
  /\ << "a" >> \in DOMAIN learned /\ << "A" >> \in DOMAIN jar
  /\ \E t \in Tasks :
       /\ Replied(t) /\ result[t].status = 401 /\ jarWrites[t] >= 2

(***************************************************************************)
(* C13.  The jar changes only in the harvest step of a forwarding that     *)
(* received an upstream reply: every step that changes the jar is the      *)
(* insert of a task holding a reply, and it changes only the entry named   *)
(* by the Set-Cookie header of that reply the task is at.  Routing and     *)
(* OPTIONS handling, url and header construction, cookie injection, the    *)
(* upstream send, a transport failure and response assembly leave the jar  *)
(* as it is, whatever headers the downstream request carries.              *)
(***************************************************************************)
C13_JarFrame ==
  [][ /\ jar' # jar =>
           \E t \in Tasks :
             /\ Inserts(t) /\ Replied(t)
             /\ LET h == result[t].headers[hIdx[t]]
                IN  /\ Parseable(h)
                    /\ \A n \in DOMAIN jar' :
                         (n \notin DOMAIN jar \/ jar'[n] # jar[n]) => n = CookieName(h.value)
      /\ \A t \in Tasks :
           (pc[t] \in {"idle", "read_wait", "read_iter", "await", "done"}
              /\ pc'[t] # pc[t] /\ \A u \in Tasks \ {t} : pc'[u] = pc[u]) => jar' = jar
    ]_vars

\* a request with a Cookie header of its own was sent upstream while the jar
\* held a harvested cookie, and the jar holds that cookie and no more
C13_Witness ==
  \E t \in Tasks :
    /\ pc[t] = "await"
    /\ \E i \in 1..Len(req[t].headers) : to_lowercase(req[t].headers[i].name) = "cookie"
    /\ DOMAIN jar = {<< "a" >>} /\ jar[<< "a" >>] = << "2" >>
    /\ snap[t] = jar

(***************************************************************************)
(* C12.  Within one forwarding task all jar writes for the Set-Cookie      *)
(* headers of the upstream reply happen before the downstream response is  *)
(* emitted, whatever the status of the reply (2xx, 3xx, 4xx, 5xx): when    *)
(* the response exists the task has left its harvest loop, it has written  *)
(* once for every parseable Set-Cookie header of the reply, and the jar    *)
(* holds the name of each of them.                                         *)
(***************************************************************************)
C12_HarvestBeforeResponse ==
  \A t \in Tasks :
    (Replied(t) /\ HasResp(t)) =>
      /\ pc[t] = "done"
      /\ jarWrites[t] = Cardinality(ParseableCookies(t))
      /\ \A i \in ParseableCookies(t) :
           CookieName(result[t].headers[i].value) \in DOMAIN jar

\* the responses to a 401 and to a 503 reply with Set-Cookie headers exist
\* and the cookies of both replies are in the jar
C12_Witness ==
  \E t, u \in Tasks :
    /\ Replied(t) /\ HasResp(t) /\ result[t].status = 503 /\ jarWrites[t] = 1
    /\ Replied(u) /\ HasResp(u) /\ result[u].status = 401 /\ jarWrites[u] = 3
    /\ {<< "a" >>, << "b" >>} \subseteq DOMAIN jar

(***************************************************************************)
(* C17.  A Set-Cookie header whose part before the first ';' contains no   *)
(* '=' is skipped without modifying the jar, and the other parseable       *)
(* Set-Cookie headers of the same reply, before and after it, are still    *)
(* stored; every jar entry is the trimmed name and the trimmed value of    *)
(* the part before the first ';' of a received header, split at its first  *)
(* '='.                                                                    *)
(***************************************************************************)
\* the reply of the task has a Set-Cookie header without '=' before its first ';'
HasUnparseable(t) ==
  \E i \in Named(result[t].headers, "set-cookie") :
    /\ ReadableText(result[t].headers[i].value)
    /\ CookieEq(result[t].headers[i].value) = 0

C17_UnparseableSkipped ==
  /\ jar = learned
  /\ \A t \in Tasks :
       (Replied(t) /\ pc[t] = "done" /\ HasUnparseable(t)) =>
         /\ jarWrites[t] = Cardinality(ParseableCookies(t))
         /\ \A i \in ParseableCookies(t) :
              LET n == CookieName(result[t].headers[i].value)
              IN  /\ n \in DOMAIN jar
                  /\ ~foreign[t] =>
                       \E j \in ParseableCookies(t) :
                         /\ CookieName(result[t].headers[j].value) = n
                         /\ CookieValue(result[t].headers[j].value) = jar[n]

\* the reply with "a=2", "a;b=1" and "a=1=2" was harvested: two writes, and
\* the jar holds a alone, with the value of the header after the skipped one
C17_Witness ==
  \E t \in Tasks :
    /\ Replied(t) /\ pc[t] = "done" /\ HasUnparseable(t) /\ ~foreign[t]
    /\ jarWrites[t] = 2
    /\ DOMAIN jar = {<< "a" >>}
    /\ jar[<< "a" >>] = << "1", "=", "2" >>

(***************************************************************************)
(* C15.  When a forwarding task is cancelled at a suspension point (the    *)
(* downstream client disconnects), every jar write it did before remains   *)
(* in the jar and nothing is rolled back: the cancellation leaves the jar  *)
(* and its lock as they are, the names the task stored are still in the    *)
(* jar, and a task cancelled before its harvest has written nothing.       *)
(***************************************************************************)
\* the step drops the task t at a suspension point
Cancels(t) == pc[t] \in {"read_wait", "await", "write_wait"} /\ pc'[t] = "idle"

C15_CancelKeepsJar ==
  [][\A t \in Tasks :
       Cancels(t) =>
         /\ jar' = jar
         /\ lock' = lock
         /\ pc[t] \in {"read_wait", "await"} => jarWrites[t] = 0
         /\ pc[t] = "write_wait" =>
              \A i \in 1..(hIdx[t] - 1) :
                Parseable(result[t].headers[i]) =>
                  CookieName(result[t].headers[i].value) \in DOMAIN jar'
    ]_vars

\* a task was cancelled between the writes of its 401 reply: b is in the jar,
\* the cookies after it are not, and no task is running
C15_Witness ==
  /\ \A t \in Tasks : pc[t] = "idle"
  /\ accepted = 1
  /\ DOMAIN jar = {<< "b" >>}

(***************************************************************************)
(* C11.  For a downstream client that issues its requests strictly one     *)
(* after the other, every cookie N=V harvested from the reply to a request *)
(* appears in the synthesized Cookie header of every later forwarded       *)
(* request, with the value V until a later reply overwrites N: the request *)
(* sent upstream carries, for every name the replies so far have set, the  *)
(* last value set for it.                                                  *)
(***************************************************************************)
\* the name=value pairs of the Cookie headers of a request
CookiePairs(hs) ==
  UNION {{PairsOf(hs[i].value)[k] : k \in 1..Len(PairsOf(hs[i].value))} :
           i \in Named(hs, "cookie")}

C11_SequentialCookiesSent ==
  \A t \in Tasks :
    pc[t] = "await" =>
      \A n \in DOMAIN learned : << n, learned[n] >> \in CookiePairs(up[t].headers)

\* the third request of the client is sent with a=2 and A=1: a reply set a=1
\* and A=1 and a later one set a=2
C11_Witness ==
  \E t \in Tasks :
    /\ pc[t] = "await" /\ accepted = 3
    /\ DOMAIN learned = {<< "a" >>, << "A" >>}
    /\ learned[<< "a" >>] = << "2" >>
    /\ CookiePairs(up[t].headers) = {<< << "a" >>, << "2" >> >>, << << "A" >>, << "1" >> >>}

(***************************************************************************)
(* C19.  No forwarding task holds the jar lock while it awaits the         *)
(* upstream: a task holds a guard only inside its cookie-header block and  *)
(* for one insert, never while it waits for a lock, for the upstream or    *)
(* with its response built.  So under fair scheduling, with forwardings    *)
(* running concurrently, no task is stuck at the lock: a task waiting for  *)
(* the read guard gets to its upstream send, every forwarding whose        *)
(* upstream call returned (with a reply or a transport error) eventually   *)
(* has its response, and the response of a task, once there, is not        *)
(* replaced by another.                                                    *)
(***************************************************************************)
HoldsGuard(t) == t \in lock.readers \/ t \in lock.writer

C19_NoLockAcrossAwait ==
  /\ [](\A t \in Tasks : HoldsGuard(t) => pc[t] \in {"read_iter", "insert"})
  /\ [][\A t \in Tasks : HasResp(t) => (resp'[t] = resp[t] \/ pc'[t] = "idle")]_vars
  /\ \A t \in Tasks : (pc[t] = "read_wait") ~> (pc[t] = "await")
  /\ \A t \in Tasks : (Replied(t) \/ Failed(t)) ~> HasResp(t)

\* a task stored the cookies of its reply and has its response while another
\* task, sent upstream with the jar's cookie, still waits for its reply
C19_Witness ==
  \E t, u \in Tasks :
    /\ t # u
    /\ pc[t] = "await" /\ snap[t] # EmptyJar
    /\ Replied(u) /\ HasResp(u) /\ jarWrites[u] = 3
    /\ lock = [readers |-> {}, writer |-> {}]

====
